---- MODULE Spec2Model ----
(***************************************************************************)
(* binbreak: the frame-driven runtime (src/src/app.rs) and the procedural  *)
(* animation widget (src/src/utils.rs).                                     *)
(*                                                                         *)
(* Time is counted in whole milliseconds.  An f32 is kept exactly: zero is *)
(* <<0, 0>> and a positive value is the normalised pair <<m, e>> with      *)
(* 2^23 <= m < 2^24, standing for m / 2^e (so 1.0 is <<2^23, 23>>).        *)
(***************************************************************************)
EXTENDS Integers, Sequences, FiniteSets, TLC

VARIABLES
    now,            \* Instant::now(), ms
    animation,      \* the ProceduralAnimationWidget (of the menu, or under test)
    shown,          \* progress handed to render_to_buffer_at_progress by the last render
    probe,          \* the last call made on the widget: [call, before, was_paused, waited]
    pc,             \* where run_app is
    app_state,      \* the variant of AppState: "Start", "Playing" or "Exit"
    list_state,     \* StartMenuState.list_state.selected (Some(i) throughout)
    game,           \* the BinaryNumbersGame of AppState::Playing
    LAST_SELECTED_INDEX,
    last_frame_time,
    dt,             \* ms
    area,           \* f.area(): the terminal, [x, y, width, height]
    fps_mode,       \* polling discipline chosen in this tick, and its poll timeout
    ev,             \* the event read in this tick and the handler it went to
    tick,           \* what this tick has done so far: [runs, renders, inputs, ended, unread]
    buf             \* the Buffer a render_to_buffer_at_progress call under test writes

animVars == <<animation, shown, probe>>
appVars == <<pc, app_state, list_state, game, LAST_SELECTED_INDEX, last_frame_time,
             dt, area, fps_mode, ev, tick, buf>>
vars == <<now, animation, shown, probe, pc, app_state, list_state, game,
          LAST_SELECTED_INDEX, last_frame_time, dt, area, fps_mode, ev, tick, buf>>

----------------------------------------------------------------------------
(* Bounds of the model *)

MaxFrames == 11          \* num_frames of a widget under test is 1 or MaxFrames
MaxFrameDuration == 2    \* its frame_duration, ms, is in 1..MaxFrameDuration
MaxPauseAtEnd == 3       \* its pause_at_end, ms, is 0 or MaxPauseAtEnd
MaxNow == 20             \* the clock of the widget under test stops here
MaxStep == 3             \* longest single advance of that clock
MaxClock == 200          \* the clock of run_app stops here
MaxSelected == 8         \* Down is not pressed with the list cursor beyond this
FairClock == 99          \* the clock of run_app under FairSpec stops here
MaxArtWidth == 3         \* chars in each line of the art of a render under test

----------------------------------------------------------------------------
(* f32 arithmetic, as the two float operations of utils.rs need it *)

RECURSIVE Pow2(_)
Pow2(n) == IF n = 0 THEN 1 ELSE 2 * Pow2(n - 1)

RECURSIVE BitLen(_)
BitLen(n) == IF n = 0 THEN 0 ELSE 1 + BitLen(n \div 2)

F32Zero == <<0, 0>>
F32One == <<Pow2(23), 23>>

\* a < b for two f32 values in [0, 1]
F32Less(a, b) ==
    IF a = F32Zero THEN b # F32Zero
    ELSE IF b = F32Zero THEN FALSE
    ELSE a[2] > b[2] \/ (a[2] = b[2] /\ a[1] < b[1])

\* the k >= 1 with d <= n * 2^k < 2 * d, for 0 < n < d
RECURSIVE DivShift(_, _)
DivShift(n, d) == IF 2 * n >= d THEN 1 ELSE 1 + DivShift(2 * n, d)

\* long division: <<quotient bits, remainder>> after `bits` more steps
RECURSIVE DivBits(_, _, _, _)
DivBits(m, r, d, bits) ==
    IF bits = 0 THEN <<m, r>>
    ELSE IF 2 * r >= d THEN DivBits(2 * m + 1, 2 * r - d, d, bits - 1)
    ELSE DivBits(2 * m, 2 * r, d, bits - 1)

\* `n as f32 / d as f32` for integers 0 <= n < d < 2^24: one correctly
\* rounded (nearest, ties to even) division
F32Div(n, d) ==
    IF n = 0 THEN F32Zero
    ELSE LET k == DivShift(n, d)
             q == DivBits(1, n * Pow2(k) - d, d, 23)
             m == q[1]
             r == q[2]
             up == 2 * r > d \/ (2 * r = d /\ m % 2 = 1)
             m1 == IF up THEN m + 1 ELSE m
         IN IF m1 = Pow2(24) THEN <<Pow2(23), 22 + k>> ELSE <<m1, 23 + k>>

\* `(p * d as f32) as u64` for an f32 p in [0, 1] and an integer 0 < d < 2^12:
\* the product is rounded to 24 bits (nearest, ties to even), then the cast
\* drops the fraction
F32MulToU64(p, d) ==
    IF p = F32Zero THEN 0
    ELSE LET m == p[1]
             e == p[2]
             x == (m \div 4096) * d
             y == (m % 4096) * d
             hi == x + (y \div 4096)
             lo == y % 4096
             drop == IF BitLen(hi) > 12 THEN BitLen(hi) - 12 ELSE 0
             kept == hi * Pow2(12 - drop) + (lo \div Pow2(drop))
             rest == lo % Pow2(drop)
             half == IF drop = 0 THEN 0 ELSE Pow2(drop - 1)
             up == drop > 0 /\ (rest > half \/ (rest = half /\ kept % 2 = 1))
             rounded == IF up THEN kept + 1 ELSE kept
         IN rounded \div Pow2(e - drop)

----------------------------------------------------------------------------
(* ProceduralAnimationWidget, utils.rs *)

\* ProceduralAnimationWidget::new(..).with_pause_at_end(pause), built at time t
\* froze: while paused, the cycle time at which pause() froze the widget (an
\* observation, not a field)
NewAnimation(num_frames, frame_duration, pause, t) ==
    [num_frames |-> num_frames, frame_duration |-> frame_duration,
     pause_at_end |-> pause, start_time |-> t,
     paused |-> FALSE, paused_progress |-> F32Zero, froze |-> 0]

animation_duration(a) == a.frame_duration * a.num_frames

total_cycle_duration(a) == animation_duration(a) + a.pause_at_end

\* progress_at_elapsed with the dwell left out of the cycle
progress_at_elapsed_no_dwell(a, elapsed) ==
    F32Div(elapsed % animation_duration(a), animation_duration(a))

\* progress_at_elapsed that stays finished after one traversal
progress_at_elapsed_one_shot(a, elapsed) ==
    IF elapsed >= animation_duration(a) THEN F32One
    ELSE F32Div(elapsed, animation_duration(a))

\* the unpaused branch of get_animation_progress, for elapsed = t - start_time
progress_at_elapsed(a, elapsed) ==
    LET cycle_time == elapsed % total_cycle_duration(a)
    IN IF cycle_time >= animation_duration(a) THEN F32One
       ELSE F32Div(cycle_time, animation_duration(a))

\* get_animation_progress that does not look at the paused flag
get_animation_progress_running(a, t) == progress_at_elapsed(a, t - a.start_time)

get_animation_progress(a, t) ==
    IF a.paused THEN a.paused_progress
    ELSE progress_at_elapsed(a, t - a.start_time)

pause(a, t) ==
    IF ~a.paused
    THEN [a EXCEPT !.paused_progress = get_animation_progress(a, t), !.paused = TRUE,
                   !.froze = (t - a.start_time) % total_cycle_duration(a)]
    ELSE a

elapsed_at_pause(a) == F32MulToU64(a.paused_progress, animation_duration(a))

\* unpause that leaves start_time where it was
unpause_keeping_start(a, t) ==
    IF a.paused THEN [a EXCEPT !.paused = FALSE, !.froze = 0] ELSE a

\* unpause that resumes at the cycle time the widget froze at
unpause_at_cycle_time(a, t) ==
    IF a.paused
    THEN [a EXCEPT !.start_time = t - a.froze, !.paused = FALSE, !.froze = 0]
    ELSE a

unpause(a, t) ==
    IF a.paused
    THEN [a EXCEPT !.start_time = t - elapsed_at_pause(a), !.paused = FALSE, !.froze = 0]
    ELSE a

toggle_pause(a, t) == IF a.paused THEN unpause(a, t) ELSE pause(a, t)

is_paused(a) == a.paused

\* render_to_buffer: the progress it passes on to render_to_buffer_at_progress
render_to_buffer(a, t) == get_animation_progress(a, t)

\* nothing rendered since the state last changed
NoShow == [valid |-> FALSE, progress |-> F32Zero]

\* probe: the last call made on the widget since the clock last moved
\* (call), the progress read just before that call (before), whether the
\* widget was paused before it (was_paused), the cycle time it was frozen at
\* if it was (froze), and whether the clock had moved between the call before
\* it and that call (waited)
NoProbe(call) ==
    [call |-> call, before |-> F32Zero, was_paused |-> FALSE, froze |-> 0,
     waited |-> FALSE]

Probe(call) ==
    [call |-> call, before |-> get_animation_progress(animation, now),
     was_paused |-> animation.paused, froze |-> animation.froze,
     waited |-> probe.call = "advance"]

----------------------------------------------------------------------------
(* keybinds.rs *)

is_up(key) == key.code \in {"Up", "k"}

is_down(key) == key.code \in {"Down", "j"}

is_select(key) == key.code = "Enter"

is_exit(key) == key.code \in {"Esc", "q", "Q"}

----------------------------------------------------------------------------
(* app.rs: the start menu *)

TargetFrameMs == 33
InitialLastSelected == 4
MenuNumFrames == 50
MenuFrameDurationMs == 50
MenuPauseAtEndMs == 2000
AsciiWidth == 71
AsciiHeight == 8
MaxLabelLen == 24
Spacing == 3

\* StartMenuState.items: the difficulty of each entry
Items == <<"Four", "FourShift4", "FourShift8", "FourShift12", "Eight", "Twelve", "Sixteen">>

ascii_animation(t) ==
    NewAnimation(MenuNumFrames, MenuFrameDurationMs, MenuPauseAtEndMs, t)

get_last_selected_index == LAST_SELECTED_INDEX

\* ListState::default().with_selected(Some(selected_index))
with_selected(selected_index) == selected_index

selected_index(ls) == ls

\* select_next that wraps around the items
select_next_wrapping(ls) == IF ls + 1 >= Len(Items) THEN 0 ELSE ls + 1

\* ListState::select_next: selected.map_or(0, |i| i.saturating_add(1))
select_next(ls) == ls + 1

\* ListState::select_previous: selected.map_or(usize::MAX, |i| i.saturating_sub(1))
select_previous(ls) == IF ls = 0 THEN 0 ELSE ls - 1

\* self.items[self.selected_index()] is in range
selected_in_range(ls) == selected_index(ls) < Len(Items)

selected_bits(ls) == Items[selected_index(ls) + 1]

U16Max == 65535

\* `a + b` on u16: with overflow checks (debug and test builds) an overflow
\* panics, without them (release builds) the sum wraps
overflows(a, b) == a + b > U16Max

wrapping_add(a, b) == (a + b) % (U16Max + 1)

\* `a - b` on u16, likewise
underflows(a, b) == a < b

wrapping_sub(a, b) == (a - b) % (U16Max + 1)

saturating_sub(a, b) == IF a > b THEN a - b ELSE 0

Min(a, b) == IF a < b THEN a ELSE b

Rect(x, y, w, h) == [x |-> x, y |-> y, width |-> w, height |-> h]

\* the two rects render_start_screen draws into, as the u16 arithmetic gives
\* them when it wraps, and whether any of its sums or its difference left
\* the u16 range (overflow)
start_screen_layout(r) ==
    LET list_width == 2 + MaxLabelLen
        list_height == Len(Items)
        total_height == AsciiHeight + Spacing + list_height
        dy == saturating_sub(r.height, total_height) \div 2
        dax == saturating_sub(r.width, AsciiWidth) \div 2
        dlx == saturating_sub(r.width, list_width) \div 2
        start_y == wrapping_add(r.y, dy)
        ascii_x == wrapping_add(r.x, dax)
        list_x == wrapping_add(r.x, dlx)
        ascii_y == start_y
        below_art == wrapping_add(ascii_y, AsciiHeight)
        list_y == wrapping_add(below_art, Spacing)
        used == wrapping_sub(list_y, r.y)
    IN [ascii_area |-> Rect(ascii_x, ascii_y, Min(AsciiWidth, r.width),
                            Min(AsciiHeight, r.height)),
        list_area |-> Rect(list_x, list_y, Min(list_width, r.width),
                           Min(list_height, saturating_sub(r.height, used))),
        overflow |-> \/ overflows(r.y, dy) \/ overflows(r.x, dax) \/ overflows(r.x, dlx)
                     \/ overflows(ascii_y, AsciiHeight) \/ overflows(below_art, Spacing)
                     \/ underflows(list_y, r.y)]

\* StatefulWidget::render(list, list_area, buf, &mut state.list_state): the
\* list widget draws nothing into an empty area and otherwise first pulls a
\* selection beyond the last item back onto the last item
render_list(ls, list_area) ==
    IF list_area.width = 0 \/ list_area.height = 0 THEN ls
    ELSE IF ls >= Len(Items) THEN Len(Items) - 1
    ELSE ls

\* what render_start_screen leaves in state.list_state
render_start_screen(ls, r) == render_list(ls, start_screen_layout(r).list_area)

----------------------------------------------------------------------------
(* utils.rs: render_to_buffer_at_progress, and the Rect and Buffer it uses *)

\* Rect::right and Rect::bottom: x.saturating_add(width), y.saturating_add(height)
right(r) == Min(r.x + r.width, U16Max)

bottom(r) == Min(r.y + r.height, U16Max)

Position(x, y) == [x |-> x, y |-> y]

\* Rect::contains(position)
contains(r, p) == p.x >= r.x /\ p.x < right(r) /\ p.y >= r.y /\ p.y < bottom(r)

\* Rect::positions
Positions(r) == {Position(x, y) : x \in r.x..(right(r) - 1), y \in r.y..(bottom(r) - 1)}

\* Buffer::empty(area): a default Cell at every position of the area
EmptyBuffer(r) ==
    [area |-> r, content |-> [p \in Positions(r) |-> [symbol |-> " ", fg |-> "Reset"]]]

\* (self.color_fn)(x, y, progress) and char_fn(x, y, progress, ch): the
\* caller's functions, kept as the terms they are applied to
color_fn(x, y, progress) == <<"color_fn", x, y, progress>>

char_fn(x, y, progress, ch) == <<"char_fn", x, y, progress, ch>>

\* the body of the two loops for the art cell (x, y) holding ch, on the
\* buffer content so far; st = [content, panicked]; w is the widget (art,
\* has_char_fn) and the build it is compiled in (overflow_checks)
render_cell(w, r, progress, st, x, y, ch) ==
    IF ch = " " THEN st
    ELSE LET color == color_fn(x, y, progress)
             display_char == IF w.has_char_fn THEN char_fn(x, y, progress, ch) ELSE ch
             position == Position(wrapping_add(x, r.x), wrapping_add(y, r.y))
         IN IF w.overflow_checks /\ (overflows(x, r.x) \/ overflows(y, r.y))
            THEN [st EXCEPT !.panicked = "attempt to add with overflow"]
            ELSE IF ~contains(r, position) THEN st
            ELSE IF position \notin DOMAIN st.content
            THEN [st EXCEPT !.panicked = "Failed to get cell at position"]
            ELSE [st EXCEPT !.content[position] = [symbol |-> display_char, fg |-> color]]

\* for (x, ch) in line.chars().enumerate(), from the x-th char (0-based) on
RECURSIVE render_line(_, _, _, _, _, _, _)
render_line(w, r, progress, st, line, y, x) ==
    IF x >= Len(line) \/ st.panicked # "no" THEN st
    ELSE render_line(w, r, progress,
                     render_cell(w, r, progress, st, x, y, line[x + 1]), line, y, x + 1)

\* for (y, line) in self.art.lines().enumerate(), from the y-th line (0-based) on
RECURSIVE render_lines(_, _, _, _, _)
render_lines(w, r, progress, st, y) ==
    IF y >= Len(w.art) \/ st.panicked # "no" THEN st
    ELSE render_lines(w, r, progress,
                      render_line(w, r, progress, st, w.art[y + 1], y, 0), y + 1)

\* the buffer content after the call, and the panic that ended it, if any
render_to_buffer_at_progress(w, r, buffer, progress) ==
    render_lines(w, r, progress, [content |-> buffer.content, panicked |-> "no"], 0)

----------------------------------------------------------------------------
(* app.rs: the game, as far as run_app looks into it *)

\* ran: game.run has been called on this game; born: the clock when the game
\* was constructed; waited: the time the blocking read that delivered its Enter
\* had waited (observations kept until the first run, not fields)
NoGame == [bits |-> "None", active |-> FALSE, exit_intended |-> FALSE, ran |-> FALSE,
           born |-> 0, waited |-> 0]

\* BinaryNumbersGame::new(bits)
NewGames(bits) ==
    {[bits |-> bits, active |-> a, exit_intended |-> FALSE, ran |-> FALSE,
      born |-> 0, waited |-> 0] : a \in BOOLEAN}

\* game.run(dt) and game.handle_input(key): either may change both signals
GameSteps(g) == {[g EXCEPT !.active = a, !.exit_intended = x] : a, x \in BOOLEAN}

\* get_fps_mode with its two arms exchanged
get_fps_mode_inverted(g) == IF g.active THEN "Performance" ELSE "RealTime"

get_fps_mode(g) == IF g.active THEN "RealTime" ELSE "Performance"

\* the mode of the Start arm of run_app's input step
menu_fps_mode(a) == IF ~is_paused(a) THEN "RealTime" ELSE "Performance"

----------------------------------------------------------------------------
(* app.rs: events *)

KeyCodes == {"Up", "k", "Down", "j", "Enter", "Esc", "q", "Q", "a", "A", "c", "C", "x"}

Key(code, modifiers, kind) ==
    [type |-> "Key", code |-> code, modifiers |-> modifiers, kind |-> kind]

\* the events the terminal delivers: bare key presses, the letters c and C
\* also with Control, with Control+Shift and with Alt, key releases, and an
\* event that is no key event
Events ==
    {Key(c, {}, "Press") : c \in KeyCodes}
    \cup {Key(c, m, "Press") : c \in {"c", "C"},
                               m \in {{"CONTROL"}, {"CONTROL", "SHIFT"}, {"ALT"}}}
    \cup {Key("c", {"CONTROL"}, "Release"), Key("Enter", {}, "Release")}
    \cup {[type |-> "Other", code |-> "None", modifiers |-> {}, kind |-> "None"]}

NoEvent == [event |-> [type |-> "None", code |-> "None", modifiers |-> {}, kind |-> "None"],
            via |-> "none"]

is_press(e) == e.type = "Key" /\ e.kind = "Press"

\* is_ctrl_c that knows the lower-case letter only
is_ctrl_c_lowercase(key) == key.code = "c" /\ key.modifiers = {"CONTROL"}

\* KeyCode::Char('c' | 'C') if key.modifiers == KeyModifiers::CONTROL
is_ctrl_c(key) == key.code \in {"c", "C"} /\ key.modifiers = {"CONTROL"}

\* is_toggle that takes one more letter
is_toggle_with_x(key) == key.code \in {"a", "A", "x"}

\* KeyEvent { code: KeyCode::Char('a' | 'A'), .. }
is_toggle(key) == key.code \in {"a", "A"}

\* terminals: one that holds the whole start screen and one too short for the list
TermSizes == {Rect(0, 0, 80, 24), Rect(0, 0, 80, 10)}

NoMode == [mode |-> "None", timeout |-> 0]

DroppedAnimation == ascii_animation(0)

----------------------------------------------------------------------------
(* app.rs: run_app *)

\* tick: game.run calls (runs), terminal.draw calls (renders) and events
\* handled (inputs) since the loop head was last passed; how the last tick to
\* end ended (ended: "no" tick has ended yet, "sleep" after the frame cap,
\* "continue" after the return to the menu); and the renders of
\* the present run of Performance ticks not yet followed by an event (unread)
NoTick == [runs |-> 0, renders |-> 0, inputs |-> 0, ended |-> "no", unread |-> 0]

\* no render_to_buffer_at_progress call under test
NoBuffer == [called |-> FALSE]

\* time a terminal.draw may take, and time a blocking read may wait
DrawCosts == {0, TargetFrameMs}
BlockWaits == {0, 2 * TargetFrameMs}

\* the menu is dropped with AppState::Start
DropMenu == list_state' = 0 /\ animation' = DroppedAnimation

Init ==
    /\ now = 0
    /\ LAST_SELECTED_INDEX = InitialLastSelected
    /\ app_state = "Start"
    /\ list_state = with_selected(get_last_selected_index)
    /\ animation = ascii_animation(0)
    /\ game = NoGame
    /\ last_frame_time = 0
    /\ dt = 0
    /\ area \in TermSizes
    /\ pc = "top"
    /\ fps_mode = NoMode
    /\ ev = NoEvent
    /\ shown = NoShow
    /\ probe = NoProbe("new")
    /\ tick = NoTick
    /\ buf = NoBuffer

\* TickStart that goes to the render without advancing the game
TickStart_skipping_advance ==
    /\ pc = "top" /\ app_state # "Exit"
    /\ dt' = now - last_frame_time
    /\ last_frame_time' = now
    /\ pc' = "draw"
    /\ tick' = [NoTick EXCEPT !.ended = tick.ended, !.unread = tick.unread]
    /\ UNCHANGED <<now, animVars, app_state, list_state, game, LAST_SELECTED_INDEX,
                   area, fps_mode, ev, buf>>

\* while !matches!(app_state, AppState::Exit) { now; dt; last_frame_time = now
TickStart ==
    /\ pc = "top" /\ app_state # "Exit"
    /\ dt' = now - last_frame_time
    /\ last_frame_time' = now
    /\ pc' = IF app_state = "Playing" THEN "advance" ELSE "draw"
    /\ tick' = [NoTick EXCEPT !.ended = tick.ended, !.unread = tick.unread]
    /\ UNCHANGED <<now, animVars, app_state, list_state, game, LAST_SELECTED_INDEX,
                   area, fps_mode, ev, buf>>

\* LoopExit that does not look at the state
LoopExit_any_state ==
    /\ pc = "top"
    /\ pc' = "done"
    /\ UNCHANGED <<now, animVars, app_state, list_state, game, LAST_SELECTED_INDEX,
                   last_frame_time, dt, area, fps_mode, ev, tick, buf>>

\* the loop condition fails: Ok(())
LoopExit ==
    /\ pc = "top" /\ app_state = "Exit"
    /\ pc' = "done"
    /\ UNCHANGED <<now, animVars, app_state, list_state, game, LAST_SELECTED_INDEX,
                   last_frame_time, dt, area, fps_mode, ev, tick, buf>>

\* GameRun that misses the exit-intended check
GameRun_rendering_exited ==
    /\ pc = "advance" /\ app_state = "Playing"
    /\ \E g \in GameSteps(game) :
          /\ game' = [g EXCEPT !.ran = TRUE, !.born = 0, !.waited = 0]
          /\ pc' = "draw"
          /\ tick' = [tick EXCEPT !.runs = @ + 1]
          /\ UNCHANGED <<app_state, list_state, animation>>
    /\ UNCHANGED <<now, shown, probe, LAST_SELECTED_INDEX, last_frame_time, dt, area,
                   fps_mode, ev, buf>>

\* game.run(dt); if game.is_exit_intended() { Start(StartMenuState::new()); continue }
GameRun ==
    /\ pc = "advance" /\ app_state = "Playing"
    /\ \E g \in GameSteps(game) :
          IF g.exit_intended
          THEN /\ app_state' = "Start"
               /\ list_state' = with_selected(get_last_selected_index)
               /\ animation' = ascii_animation(now)
               /\ game' = NoGame
               /\ pc' = "top"
               /\ tick' = [tick EXCEPT !.runs = @ + 1, !.ended = "continue"]
          ELSE /\ game' = [g EXCEPT !.ran = TRUE, !.born = 0, !.waited = 0]
               /\ pc' = "draw"
               /\ tick' = [tick EXCEPT !.runs = @ + 1]
               /\ UNCHANGED <<app_state, list_state, animation>>
    /\ UNCHANGED <<now, shown, probe, LAST_SELECTED_INDEX, last_frame_time, dt, area,
                   fps_mode, ev, buf>>

\* terminal.draw(..)
Draw ==
    /\ pc = "draw"
    /\ \E c \in DrawCosts : now + c <= MaxClock /\ now' = now + c
    /\ IF app_state = "Start"
       THEN /\ list_state' = render_start_screen(list_state, area)
            /\ shown' = [valid |-> TRUE, progress |-> render_to_buffer(animation, now)]
       ELSE UNCHANGED <<list_state, shown>>
    /\ pc' = "input"
    /\ tick' = [tick EXCEPT !.renders = @ + 1]
    /\ UNCHANGED <<animation, probe, app_state, game, LAST_SELECTED_INDEX,
                   last_frame_time, dt, area, fps_mode, ev, buf>>

\* an I/O failure: the event read of this tick is replaced by its mark
IoError(what) == [event |-> NoEvent.event, via |-> what]

\* terminal.draw(..)? fails, before or after the closure has rendered
DrawError ==
    /\ pc = "draw"
    /\ list_state' \in {list_state,
                        IF app_state = "Start" THEN render_start_screen(list_state, area)
                        ELSE list_state}
    /\ ev' = IoError("draw_error")
    /\ pc' = "failed"
    /\ UNCHANGED <<now, animVars, app_state, game, LAST_SELECTED_INDEX, last_frame_time,
                   dt, area, fps_mode, tick, buf>>

\* the mode the input step of this tick runs in
tick_fps_mode ==
    IF app_state = "Playing" THEN get_fps_mode(game) ELSE menu_fps_mode(animation)

\* cmp::min(dt, target_frame_duration)
poll_timeout == Min(dt, TargetFrameMs)

SelectMode ==
    /\ pc = "input"
    /\ fps_mode' = [mode |-> tick_fps_mode,
                    timeout |-> IF tick_fps_mode = "RealTime" THEN poll_timeout ELSE 0]
    /\ pc' = "wait"
    /\ tick' = [tick EXCEPT !.unread = IF tick_fps_mode = "Performance" THEN @ + 1 ELSE 0]
    /\ UNCHANGED <<now, animVars, app_state, list_state, game, LAST_SELECTED_INDEX,
                   last_frame_time, dt, area, ev, buf>>

\* event::poll(poll_timeout) returns false
PollTimeout ==
    /\ pc = "wait" /\ fps_mode.mode = "RealTime"
    /\ now + fps_mode.timeout <= MaxClock
    /\ now' = now + fps_mode.timeout
    /\ pc' = "sleep"
    /\ UNCHANGED <<animVars, app_state, list_state, game, LAST_SELECTED_INDEX,
                   last_frame_time, dt, area, fps_mode, ev, tick, buf>>

\* AppState::Playing(BinaryNumbersGame::new(state.selected_bits())) at clock t,
\* in a tick whose read began at clock now
BuiltGames(bits, t) ==
    {[g EXCEPT !.born = t,
               !.waited = IF fps_mode.mode = "Performance" THEN t - now ELSE 0] :
        g \in NewGames(bits)}

\* handle_start_input that stores the index before it looks up the bits
handle_start_input_storing_first(key, t) ==
    IF is_up(key) THEN
        /\ list_state' = select_previous(list_state)
        /\ pc' = "sleep"
        /\ UNCHANGED <<animation, app_state, game, LAST_SELECTED_INDEX>>
    ELSE IF is_down(key) THEN
        /\ list_state < MaxSelected
        /\ list_state' = select_next(list_state)
        /\ pc' = "sleep"
        /\ UNCHANGED <<animation, app_state, game, LAST_SELECTED_INDEX>>
    ELSE IF is_select(key) THEN
        IF selected_in_range(list_state)
        THEN /\ LAST_SELECTED_INDEX' = selected_index(list_state)
             /\ game' \in BuiltGames(selected_bits(list_state), t)
             /\ app_state' = "Playing"
             /\ DropMenu
             /\ pc' = "sleep"
        ELSE /\ LAST_SELECTED_INDEX' = selected_index(list_state)
             /\ pc' = "panicked"
             /\ UNCHANGED <<animation, app_state, list_state, game>>
    ELSE IF is_exit(key) THEN
        /\ app_state' = "Exit"
        /\ DropMenu
        /\ pc' = "sleep"
        /\ UNCHANGED <<game, LAST_SELECTED_INDEX>>
    ELSE IF is_toggle(key) THEN
        /\ animation' = toggle_pause(animation, t)
        /\ pc' = "sleep"
        /\ UNCHANGED <<app_state, list_state, game, LAST_SELECTED_INDEX>>
    ELSE
        /\ pc' = "sleep"
        /\ UNCHANGED <<animation, app_state, list_state, game, LAST_SELECTED_INDEX>>

handle_start_input(key, t) ==
    IF is_up(key) THEN
        /\ list_state' = select_previous(list_state)
        /\ pc' = "sleep"
        /\ UNCHANGED <<animation, app_state, game, LAST_SELECTED_INDEX>>
    ELSE IF is_down(key) THEN
        /\ list_state < MaxSelected
        /\ list_state' = select_next(list_state)
        /\ pc' = "sleep"
        /\ UNCHANGED <<animation, app_state, game, LAST_SELECTED_INDEX>>
    ELSE IF is_select(key) THEN
        IF selected_in_range(list_state)
        THEN /\ LAST_SELECTED_INDEX' = selected_index(list_state)
             /\ game' \in BuiltGames(selected_bits(list_state), t)
             /\ app_state' = "Playing"
             /\ DropMenu
             /\ pc' = "sleep"
        ELSE /\ pc' = "panicked"
             /\ UNCHANGED <<animation, app_state, list_state, game, LAST_SELECTED_INDEX>>
    ELSE IF is_exit(key) THEN
        /\ app_state' = "Exit"
        /\ DropMenu
        /\ pc' = "sleep"
        /\ UNCHANGED <<game, LAST_SELECTED_INDEX>>
    ELSE IF is_toggle(key) THEN
        /\ animation' = toggle_pause(animation, t)
        /\ pc' = "sleep"
        /\ UNCHANGED <<app_state, list_state, game, LAST_SELECTED_INDEX>>
    ELSE
        /\ pc' = "sleep"
        /\ UNCHANGED <<animation, app_state, list_state, game, LAST_SELECTED_INDEX>>

\* Dispatch with the exit keys of the menu made global
Dispatch_exit_keys_global(key) ==
    IF is_ctrl_c(key) \/ is_exit(key) THEN "ctrl_c"
    ELSE IF app_state = "Start" THEN "handle_start_input"
    ELSE IF app_state = "Playing" THEN "game.handle_input"
    ELSE "exit"

\* the handler a key press goes to
Dispatch(key) ==
    IF is_ctrl_c(key) THEN "ctrl_c"
    ELSE IF app_state = "Start" THEN "handle_start_input"
    ELSE IF app_state = "Playing" THEN "game.handle_input"
    ELSE "exit"

handle_crossterm_events(e, t) ==
    IF ~is_press(e) THEN
        /\ ev' = [event |-> e, via |-> "ignored"]
        /\ pc' = "sleep"
        /\ UNCHANGED <<animation, app_state, list_state, game, LAST_SELECTED_INDEX>>
    ELSE
        /\ ev' = [event |-> e, via |-> Dispatch(e)]
        /\ IF Dispatch(e) = "ctrl_c" THEN
               /\ app_state' = "Exit"
               /\ DropMenu
               /\ game' = NoGame
               /\ pc' = "sleep"
               /\ UNCHANGED LAST_SELECTED_INDEX
           ELSE IF Dispatch(e) = "handle_start_input" THEN
               handle_start_input(e, t)
           ELSE IF Dispatch(e) = "game.handle_input" THEN
               /\ game' \in GameSteps(game)
               /\ pc' = "sleep"
               /\ UNCHANGED <<animation, app_state, list_state, LAST_SELECTED_INDEX>>
           ELSE
               /\ pc' = "sleep"
               /\ UNCHANGED <<animation, app_state, list_state, game, LAST_SELECTED_INDEX>>

\* event::poll(poll_timeout) returns true within the timeout, then event::read()
PollEvent ==
    /\ pc = "wait" /\ fps_mode.mode = "RealTime"
    /\ \E w \in {0, fps_mode.timeout}, e \in Events :
          /\ now + w <= MaxClock
          /\ now' = now + w
          /\ handle_crossterm_events(e, now + w)
    /\ tick' = [tick EXCEPT !.inputs = @ + 1]
    /\ UNCHANGED <<shown, probe, last_frame_time, dt, area, fps_mode, buf>>

\* BlockingRead that gives up after a wait, as a poll does
BlockingRead_with_timeout ==
    /\ pc = "wait" /\ fps_mode.mode = "Performance"
    /\ \E w \in BlockWaits : now + w <= MaxClock /\ now' = now + w
    /\ pc' = "sleep"
    /\ UNCHANGED <<animVars, app_state, list_state, game, LAST_SELECTED_INDEX,
                   last_frame_time, dt, area, fps_mode, ev, tick, buf>>

\* performance mode: event::read() blocks until an event occurs
BlockingRead ==
    /\ pc = "wait" /\ fps_mode.mode = "Performance"
    /\ \E w \in BlockWaits, e \in Events :
          /\ now + w <= MaxClock
          /\ now' = now + w
          /\ handle_crossterm_events(e, now + w)
    /\ tick' = [tick EXCEPT !.inputs = @ + 1, !.unread = @ - 1]
    /\ UNCHANGED <<shown, probe, last_frame_time, dt, area, fps_mode, buf>>

\* event::poll(poll_timeout)? fails
PollError ==
    /\ pc = "wait" /\ fps_mode.mode = "RealTime"
    /\ ev' = IoError("poll_error")
    /\ pc' = "failed"
    /\ UNCHANGED <<now, animVars, app_state, list_state, game, LAST_SELECTED_INDEX,
                   last_frame_time, dt, area, fps_mode, tick, buf>>

\* ReadError whose error is dropped: the tick goes on to the frame cap
ReadError_swallowed ==
    /\ pc = "wait"
    /\ ev' = IoError("read_error")
    /\ pc' = "sleep"
    /\ UNCHANGED <<now, animVars, app_state, list_state, game, LAST_SELECTED_INDEX,
                   last_frame_time, dt, area, fps_mode, tick, buf>>

\* event::read()? fails inside handle_crossterm_events, in either mode
ReadError ==
    /\ pc = "wait"
    /\ ev' = IoError("read_error")
    /\ pc' = "failed"
    /\ UNCHANGED <<now, animVars, app_state, list_state, game, LAST_SELECTED_INDEX,
                   last_frame_time, dt, area, fps_mode, tick, buf>>

\* cap frame rate
Sleep ==
    /\ pc = "sleep"
    /\ LET frame_duration == now - last_frame_time
           rest == IF frame_duration < TargetFrameMs
                   THEN TargetFrameMs - frame_duration ELSE 0
       IN now + rest <= MaxClock /\ now' = now + rest
    /\ pc' = "top"
    /\ fps_mode' = NoMode
    /\ ev' = NoEvent
    /\ shown' = NoShow
    /\ tick' = [tick EXCEPT !.ended = "sleep"]
    /\ UNCHANGED <<animation, probe, app_state, list_state, game, LAST_SELECTED_INDEX,
                   last_frame_time, dt, area, buf>>

Next ==
    \/ TickStart \/ LoopExit \/ GameRun \/ Draw \/ SelectMode
    \/ PollTimeout \/ PollEvent \/ BlockingRead \/ Sleep
    \/ DrawError \/ PollError \/ ReadError

Spec == Init /\ [][Next]_vars

\* the steps run_app takes by itself: every call it makes returns, except the
\* blocking event::read() of Performance mode, which waits for the user
Progress ==
    \/ TickStart \/ LoopExit \/ GameRun \/ Draw \/ DrawError \/ SelectMode
    \/ PollTimeout \/ PollEvent \/ PollError \/ Sleep

\* run_app up to FairClock, where every call but the blocking read returns
FairNext ==
    \/ TickStart /\ now' <= FairClock
    \/ LoopExit /\ now' <= FairClock
    \/ GameRun /\ now' <= FairClock
    \/ Draw /\ now' <= FairClock
    \/ SelectMode /\ now' <= FairClock
    \/ PollTimeout /\ now' <= FairClock
    \/ PollEvent /\ now' <= FairClock
    \/ BlockingRead /\ now' <= FairClock
    \/ Sleep /\ now' <= FairClock
    \/ DrawError /\ now' <= FairClock
    \/ PollError /\ now' <= FairClock
    \/ ReadError /\ now' <= FairClock

FairProgress == Progress /\ now' <= FairClock

FairSpec == Init /\ [][FairNext]_vars /\ WF_vars(FairProgress)

----------------------------------------------------------------------------
(* Claims about run_app and the start menu, checked under Spec *)

\* the condition under which the spec calls for RealTime polling
RealTimeCase ==
    \/ app_state = "Playing" /\ game.active
    \/ app_state = "Start" /\ ~animation.paused

\* C1: in every tick that reaches input handling the polling discipline is
\* RealTime, with poll timeout min(dt, 33 ms), exactly when the state is
\* Playing with an active game or Start with the animation not paused, and
\* Performance otherwise; a tick of Performance mode always reads an event
\* (only a RealTime tick can end without one).
C1_PollingDiscipline ==
    /\ pc = "wait" =>
          /\ fps_mode.mode = (IF RealTimeCase THEN "RealTime" ELSE "Performance")
          /\ fps_mode.mode = "RealTime" => fps_mode.timeout = Min(dt, TargetFrameMs)
    /\ (pc = "sleep" /\ ev.via = "none") => fps_mode.mode = "RealTime"

C1_Witness ==
    /\ pc = "sleep" /\ ev.via # "none"
    /\ fps_mode.mode = "Performance"
    /\ app_state = "Playing" /\ ~game.active

\* C2 as claimed: a press of c or C with Control held, whatever other
\* modifiers accompany it, sets the state to Exit without going to the menu
\* handler or to the game's handle_input.
C2_CtrlCAnyModifiers ==
    (pc = "sleep" /\ is_press(ev.event) /\ ev.event.code \in {"c", "C"}
        /\ "CONTROL" \in ev.event.modifiers)
    => (app_state = "Exit" /\ ev.via = "ctrl_c")

\* C2 as amended: a press of c or C with Control and no other modifier sets
\* the state to Exit from Start and Playing alike, before and instead of the
\* state-specific handler; with any other modifier set the press goes to the
\* state-specific handler like any other key.
C2_CtrlCExactly ==
    (pc = "sleep" /\ is_press(ev.event) /\ ev.event.code \in {"c", "C"})
    => IF ev.event.modifiers = {"CONTROL"}
       THEN app_state = "Exit" /\ ev.via = "ctrl_c" /\ game = NoGame
       ELSE ev.via \in {"handle_start_input", "game.handle_input"}
            /\ app_state # "Exit"

C2_Witness ==
    /\ pc = "sleep" /\ ev.via = "ctrl_c" /\ ev.event.code = "C"
    /\ app_state = "Exit" /\ now > 0 /\ LAST_SELECTED_INDEX # InitialLastSelected

\* C3 as claimed: the selected index of the menu is a valid index into the
\* 7 items in every reachable state.
C3_SelectedInRange ==
    app_state = "Start" => selected_index(list_state) \in 0..(Len(Items) - 1)

C5_RoundTrip ==
    /\ selected_index(list_state) = 4
    /\ [][/\ (pc = "wait" /\ app_state = "Start" /\ ev'.via = "handle_start_input"
                /\ is_select(ev'.event)) =>
                /\ app_state' = "Playing"
                /\ LAST_SELECTED_INDEX' = selected_index(list_state)
                /\ game'.bits = Items[selected_index(list_state) + 1]
          /\ (pc = "advance" /\ app_state' = "Start") =>
                selected_index(list_state') = LAST_SELECTED_INDEX]_vars

\* C11: in every tick whose render shows a game, game.run has been called
\* exactly once in that tick before the render, so no game is rendered before
\* its first run; the event of a tick is handled only after that tick's
\* render (no render follows an input within a tick) and a tick handles at
\* most one event.
C11_AdvanceRenderInput ==
    /\ tick.runs <= 1 /\ tick.renders <= 1 /\ tick.inputs <= 1
    /\ (pc = "draw" /\ app_state = "Playing") =>
          tick.runs = 1 /\ game.ran /\ tick.renders = 0
    /\ (pc \in {"input", "wait"} /\ app_state = "Playing") =>
          tick.runs = 1 /\ game.ran /\ tick.renders = 1
    /\ pc \in {"advance", "draw", "input", "wait"} => tick.inputs = 0 /\ ev = NoEvent
    /\ tick.inputs = 1 => tick.renders = 1
    /\ (tick.renders = 1 /\ tick.runs = 0 /\ pc \in {"input", "wait"}) => app_state = "Start"

\* a game that was advanced once and rendered in this tick, then given a key
C11_Witness ==
    /\ pc = "sleep" /\ app_state = "Playing" /\ ev.via = "game.handle_input"
    /\ tick.runs = 1 /\ tick.renders = 1 /\ tick.inputs = 1 /\ game.ran

\* C12: when game.run leaves the exit-intended flag set, the Playing state is
\* replaced by a fresh Start state before anything is rendered in that tick:
\* the game is gone (no game with the flag set is ever rendered or given
\* input), the new menu selects the last-selected index and its animation
\* runs from that instant; and the first tick of every Start state polls in
\* RealTime mode.
C12_ReturnToMenu ==
    /\ [][(pc = "advance" /\ app_state' = "Start") =>
             /\ tick.renders = 0 /\ tick'.renders = 0 /\ tick'.inputs = 0
             /\ pc' = "top"
             /\ game' = NoGame
             /\ selected_index(list_state') = LAST_SELECTED_INDEX
             /\ animation' = ascii_animation(now)
             /\ ~is_paused(animation')]_vars
    /\ []((pc \in {"draw", "input", "wait"} /\ app_state = "Playing")
             => ~game.exit_intended)
    /\ []((pc = "wait" /\ app_state = "Start" /\ tick.ended \in {"no", "continue"})
             => fps_mode.mode = "RealTime" /\ ~is_paused(animation))

\* the first tick of a menu entered from a game that was started on another
\* entry than the initial one
C12_Witness ==
    /\ pc = "wait" /\ app_state = "Start" /\ tick.ended = "continue"
    /\ fps_mode.mode = "RealTime"
    /\ LAST_SELECTED_INDEX # InitialLastSelected
    /\ selected_index(list_state) = LAST_SELECTED_INDEX
    /\ animation.start_time > 0

\* C13: run_app returns Ok only in state Exit; once the state is Exit it
\* stays Exit and nothing but the frame cap of that tick and the return
\* follows (no game advance, render, poll or read, no further iteration);
\* and once a Ctrl+C press, or an Esc/q/Q press in the menu, has been
\* handled, in either polling discipline, the loop terminates (as long as
\* the clock of the model has room for the frame cap).
C13_ExitTerminates ==
    /\ [](pc = "done" => app_state = "Exit")
    /\ [][app_state = "Exit" =>
             /\ app_state' = "Exit"
             /\ (pc = "sleep" /\ pc' = "top") \/ (pc = "top" /\ pc' = "done")
             /\ tick'.runs = tick.runs /\ tick'.renders = tick.renders
             /\ tick'.inputs = tick.inputs]_vars
    /\ ((/\ \/ ev.via = "ctrl_c"
            \/ ev.via = "handle_start_input" /\ ev.event.code \in {"Esc", "q", "Q"}
         /\ now + TargetFrameMs <= FairClock)
        ~> pc = "done")

\* q pressed in the menu while the animation is paused (Performance mode)
C13_Witness ==
    /\ pc = "sleep" /\ app_state = "Exit" /\ fps_mode.mode = "Performance"
    /\ ev.via = "handle_start_input" /\ ev.event.code = "q"
    /\ now + TargetFrameMs <= FairClock

\* C14: in Performance mode a tick ends only by reading an event (or by the
\* read failing), so through a run of Performance ticks the renders never
\* exceed the events read by more than one; in RealTime mode the poll can
\* always end without an event, having waited min(dt, 33 ms) and never more
\* than 33 ms, and the input step of a RealTime tick always ends.
C14_BlockOrPoll ==
    /\ [](tick.unread \in {0, 1})
    /\ []((pc = "wait" /\ fps_mode.mode = "Performance") => tick.unread = 1)
    /\ []((pc = "sleep" /\ fps_mode.mode = "Performance") =>
             tick.inputs = 1 /\ tick.unread = 0)
    /\ [][(pc = "wait" /\ fps_mode.mode = "Performance" /\ pc' # "wait") =>
             tick'.inputs = tick.inputs + 1 \/ pc' = "failed"]_vars
    /\ [][(pc = "wait" /\ fps_mode.mode = "RealTime" /\ pc' = "sleep"
             /\ tick'.inputs = tick.inputs) =>
             /\ now' - now = Min(dt, TargetFrameMs)
             /\ now' - now <= TargetFrameMs]_vars
    /\ []((pc = "wait" /\ fps_mode.mode = "RealTime" /\ now + TargetFrameMs <= FairClock)
             => ENABLED (PollTimeout /\ now' <= FairClock))
    /\ ((pc = "wait" /\ fps_mode.mode = "RealTime" /\ now + TargetFrameMs <= FairClock)
        ~> pc \in {"sleep", "failed", "panicked"})

\* an inactive game, advanced and rendered, has been given the event the
\* blocking read waited for
C14_Witness ==
    /\ pc = "sleep" /\ fps_mode.mode = "Performance"
    /\ app_state = "Playing" /\ ~game.active /\ game.ran
    /\ tick.renders = 1 /\ tick.inputs = 1 /\ tick.unread = 0
    /\ now - last_frame_time > TargetFrameMs

\* C16: a failure of terminal.draw, event::poll or event::read makes run_app
\* return the error at once: the failing step leaves the application state
\* (variant, game, animation, last-selected index; for a poll or read also
\* the selection) as it was and handles no event, and nothing follows it
\* (no retry, no further event, no frame cap, no iteration).
C16_IoErrorEndsLoop ==
    /\ [][ev'.via \in {"draw_error", "poll_error", "read_error"} =>
             /\ pc' = "failed"
             /\ app_state' = app_state /\ game' = game /\ animation' = animation
             /\ LAST_SELECTED_INDEX' = LAST_SELECTED_INDEX
             /\ tick' = tick /\ now' = now
             /\ ev'.via # "draw_error" => list_state' = list_state]_vars
    /\ [][pc = "failed" => UNCHANGED vars]_vars
    /\ [](pc = "failed" => ev.via \in {"draw_error", "poll_error", "read_error"})
    /\ [](ev.via \in {"draw_error", "poll_error", "read_error"} => pc = "failed")

\* the blocking read of an inactive game fails
C16_Witness ==
    /\ pc = "failed" /\ ev.via = "read_error"
    /\ app_state = "Playing" /\ fps_mode.mode = "Performance" /\ game.ran
    /\ tick.renders = 1 /\ tick.inputs = 0

\* C17 as claimed: every tick that ends at the loop head has computed dt,
\* advanced the game if Playing, rendered, polled or blocked, and slept the
\* rest of 33 ms, so that no tick, the one that returns from a game to the
\* menu included, lasts less than 33 ms.
C17_FullTick ==
    (pc = "top" /\ tick.ended # "no") =>
        /\ tick.ended = "sleep"
        /\ tick.renders = 1
        /\ now - last_frame_time >= TargetFrameMs

\* C18: a key press that is not Ctrl+C (c or C with Control alone) leaves
\* the state Exit only if the state was Start and the key is Esc, q or Q;
\* in Playing every such key, Esc, q, Q and Enter included, goes to
\* game.handle_input (once: it is the one event of the tick) and the state
\* stays Playing with the same game; the state leaves Playing only by Ctrl+C
\* (to Exit) or by the exit-intended flag after game.run (to Start).
C18_StateReplacement ==
    /\ [][(pc = "wait" /\ tick'.inputs = tick.inputs + 1 /\ is_press(ev'.event)
             /\ ~(ev'.event.code \in {"c", "C"} /\ ev'.event.modifiers = {"CONTROL"})) =>
             /\ app_state' = "Exit" =>
                   app_state = "Start" /\ ev'.event.code \in {"Esc", "q", "Q"}
             /\ app_state = "Playing" =>
                   /\ ev'.via = "game.handle_input"
                   /\ app_state' = "Playing"
                   /\ game'.bits = game.bits /\ game'.ran = game.ran
             /\ app_state = "Start" => ev'.via = "handle_start_input"]_vars
    /\ [][(app_state = "Playing" /\ app_state' # "Playing") =>
             \/ ev'.via = "ctrl_c" /\ app_state' = "Exit" /\ pc = "wait"
             \/ pc = "advance" /\ app_state' = "Start"]_vars

\* Esc given to a running game
C18_Witness ==
    /\ pc = "sleep" /\ app_state = "Playing" /\ game.ran
    /\ ev.via = "game.handle_input" /\ ev.event.code = "Esc"

\* C19: in the Start state a press of a or A flips the paused flag of the
\* animation and leaves the selection, the last-selected index and the
\* variant as they were; Up, k, Down and j change at most the selection;
\* Esc, q and Q change the variant to Exit and not the last-selected index;
\* every other key but Enter changes none of selection, animation (paused,
\* paused_progress, start_time), last-selected index and variant.
C19_StartKeyFrames ==
    [][(pc = "wait" /\ app_state = "Start" /\ ev'.via = "handle_start_input") =>
          LET code == ev'.event.code
          IN /\ code \in {"a", "A"} =>
                   /\ animation'.paused = ~animation.paused
                   /\ list_state' = list_state
                   /\ LAST_SELECTED_INDEX' = LAST_SELECTED_INDEX
                   /\ app_state' = "Start"
             /\ code \in {"Up", "k", "Down", "j"} =>
                   /\ animation' = animation
                   /\ LAST_SELECTED_INDEX' = LAST_SELECTED_INDEX
                   /\ app_state' = "Start"
             /\ code \in {"Esc", "q", "Q"} =>
                   /\ app_state' = "Exit"
                   /\ LAST_SELECTED_INDEX' = LAST_SELECTED_INDEX
             /\ code \notin {"a", "A", "Up", "k", "Down", "j", "Esc", "q", "Q", "Enter"} =>
                   /\ list_state' = list_state
                   /\ animation' = animation
                   /\ LAST_SELECTED_INDEX' = LAST_SELECTED_INDEX
                   /\ app_state' = "Start"]_vars

\* A pressed on a running menu whose cursor has left the entry it started on
C19_Witness ==
    /\ pc = "sleep" /\ app_state = "Start"
    /\ ev.via = "handle_start_input" /\ ev.event.code = "A"
    /\ animation.paused /\ animation.paused_progress # F32Zero
    /\ selected_index(list_state) # LAST_SELECTED_INDEX

\* C20: the last-selected index is 4 at the start, changes only by a press
\* of Enter in the Start state (to the index selected then), and is a valid
\* index of the 7 items in every reachable state.
C20_LastSelected ==
    /\ LAST_SELECTED_INDEX = 4
    /\ [](LAST_SELECTED_INDEX \in 0..(Len(Items) - 1))
    /\ [][LAST_SELECTED_INDEX' # LAST_SELECTED_INDEX =>
             /\ pc = "wait" /\ app_state = "Start"
             /\ ev'.via = "handle_start_input" /\ is_press(ev'.event)
             /\ ev'.event.code = "Enter"
             /\ LAST_SELECTED_INDEX' = selected_index(list_state)
             /\ app_state' = "Playing"]_vars

\* Enter on the cursor beyond the last entry, after the last entry had been
\* confirmed once
C20_Witness ==
    /\ pc = "panicked" /\ ev.event.code = "Enter"
    /\ selected_index(list_state) = Len(Items)
    /\ LAST_SELECTED_INDEX = Len(Items) - 1

\* C21 as claimed: on every terminal size, whenever a key is dispatched to
\* handle_start_input the selected index is below items.len(), and Enter
\* there reaches Playing instead of panicking in selected_bits.
C21_InRangeAtDispatch ==
    [][(pc = "wait" /\ app_state = "Start" /\ ev'.via = "handle_start_input") =>
          /\ selected_index(list_state) < Len(Items)
          /\ is_select(ev'.event) => (app_state' = "Playing" /\ pc' # "panicked")]_vars

\* C22 as claimed: the dt passed to the first run() of a newly constructed
\* game covers only the time since the game was constructed (the rest of the
\* tick in which Enter was pressed, at most one frame) and includes none of
\* the time the loop was blocked in the menu's read before Enter arrived.
C22_FirstDtSinceConstruction ==
    (pc = "advance" /\ app_state = "Playing" /\ ~game.ran) =>
        /\ dt <= now - game.born
        /\ dt <= TargetFrameMs
        /\ game.waited > 0 => dt < game.waited

----------------------------------------------------------------------------
(* The widget on its own: built with arbitrary parameters, then paused,     *)
(* resumed, toggled and rendered while the clock runs.                      *)

FrameCounts == {1, MaxFrames}

InitAnim ==
    /\ now = 0
    /\ \E n \in FrameCounts, d \in 1..MaxFrameDuration, p \in {0, MaxPauseAtEnd} :
           animation = NewAnimation(n, d, p, 0)
    /\ shown = NoShow
    /\ probe = NoProbe("new")
    /\ pc = "widget"
    /\ app_state = "Exit"
    /\ list_state = 0
    /\ game = NoGame
    /\ LAST_SELECTED_INDEX = InitialLastSelected
    /\ last_frame_time = 0
    /\ dt = 0
    /\ area = Rect(0, 0, 0, 0)
    /\ fps_mode = NoMode
    /\ ev = NoEvent
    /\ tick = NoTick
    /\ buf = NoBuffer

AnimAdvance ==
    /\ \E d \in 1..MaxStep : now + d <= MaxNow /\ now' = now + d
    /\ shown' = NoShow
    /\ probe' = NoProbe("advance")
    /\ UNCHANGED <<animation, appVars>>

AnimPause ==
    /\ animation' = pause(animation, now)
    /\ probe' = Probe("pause")
    /\ shown' = NoShow
    /\ UNCHANGED <<now, appVars>>

AnimUnpause ==
    /\ animation' = unpause(animation, now)
    /\ probe' = Probe("unpause")
    /\ shown' = NoShow
    /\ UNCHANGED <<now, appVars>>

AnimToggle ==
    /\ animation' = toggle_pause(animation, now)
    /\ probe' = Probe("toggle_pause")
    /\ shown' = NoShow
    /\ UNCHANGED <<now, appVars>>

AnimRender ==
    /\ ~shown.valid
    /\ shown' = [valid |-> TRUE, progress |-> render_to_buffer(animation, now)]
    /\ UNCHANGED <<now, animation, probe, appVars>>

NextAnim == AnimAdvance \/ AnimPause \/ AnimUnpause \/ AnimToggle \/ AnimRender

SpecAnim == InitAnim /\ [][NextAnim]_vars

----------------------------------------------------------------------------
(* Claims about the widget, checked under SpecAnim *)

\* elapsed.as_millis() % total_cycle_duration.as_millis() at this instant
cycle_now == (now - animation.start_time) % total_cycle_duration(animation)

\* p is the f32 nearest to the rational c / d (within half a unit in the last place)
RoundsTo(p, c, d) ==
    IF c = 0 THEN p = F32Zero
    ELSE LET diff == p[1] * d - c * Pow2(p[2])
         IN p[1] >= Pow2(23) /\ p[1] < Pow2(24)
            /\ 2 * diff <= d /\ 2 * diff >= 0 - d

\* C6: while paused, every render shows exactly paused_progress however far
\* the clock has moved, and paused_progress is the progress that a reading
\* just before the pause() call gave.
C6_PausedProgressFrozen ==
    /\ (animation.paused /\ shown.valid) =>
          shown.progress = animation.paused_progress
    /\ (probe.call \in {"pause", "toggle_pause"} /\ ~probe.was_paused) =>
          /\ animation.paused
          /\ animation.paused_progress = probe.before
          /\ get_animation_progress(animation, now) = probe.before

\* paused part-way, the clock has moved on to where the running animation
\* would show something else, and the render shows the frozen value
C6_Witness ==
    /\ animation.paused /\ shown.valid /\ probe.call = "advance"
    /\ animation.paused_progress \notin {F32Zero, F32One}
    /\ shown.progress # progress_at_elapsed(animation, now - animation.start_time)

\* C7: progress read immediately after an unpause() of a paused widget is
\* the paused_progress it held, to within one millisecond of animation time,
\* for every time spent paused; a paused_progress of 1.0 resumes at 1.0.
C7_ResumeContinuous ==
    (probe.call \in {"unpause", "toggle_pause"} /\ probe.was_paused) =>
        /\ ~animation.paused
        /\ now - animation.start_time <= animation_duration(animation)
        /\ \E c \in {cycle_now, cycle_now + 1} :
              /\ c <= animation_duration(animation)
              /\ probe.before = (IF c = animation_duration(animation) THEN F32One
                                 ELSE F32Div(c, animation_duration(animation)))
        /\ probe.before = F32One => get_animation_progress(animation, now) = F32One

\* resumed after a wait from a pause taken in the dwell
C7_Witness ==
    /\ probe.call = "unpause" /\ probe.was_paused /\ probe.waited
    /\ probe.before = F32One
    /\ ~animation.paused /\ get_animation_progress(animation, now) = F32One
    /\ now > total_cycle_duration(animation)

\* a call was just made on the widget (and not a render or a clock step)
JustCalled(call) == probe'.call = call /\ ~shown'.valid /\ now' = now

\* C8 as claimed: pause() on a paused widget and unpause() on a running one
\* change nothing, however long after the call before; and two toggle_pause()
\* calls at one instant restore the progress read before the first.
C8_Idempotent ==
    [][/\ (JustCalled("pause") /\ animation.paused) => animation' = animation
       /\ (JustCalled("unpause") /\ ~animation.paused) => animation' = animation
       /\ JustCalled("toggle_pause") =>
             animation' = (IF animation.paused THEN unpause(animation, now)
                           ELSE pause(animation, now))
       /\ (probe.call = "toggle_pause" /\ JustCalled("toggle_pause")) =>
             get_animation_progress(animation', now') = probe.before]_vars

\* C9: for an unpaused widget with c = elapsed mod (N*D + P): progress is
\* exactly 1.0 for c in [N*D, N*D + P); for c in [0, N*D) it is the f32
\* nearest to c / (N*D), strictly below 1.0 and not below the progress at
\* c - 1; progress is always within [0, 1].
C9_DwellAndRamp ==
    ~animation.paused =>
        LET p == get_animation_progress(animation, now)
            d == animation_duration(animation)
        IN /\ cycle_now >= d => p = F32One
           /\ cycle_now < d =>
                 /\ RoundsTo(p, cycle_now, d)
                 /\ F32Less(p, F32One)
                 /\ cycle_now > 0 =>
                       ~F32Less(p, progress_at_elapsed(animation, cycle_now - 1))
           /\ ~F32Less(F32One, p)
           /\ shown.valid => shown.progress = p

\* rendered inside the dwell of a later cycle
C9_Witness ==
    /\ ~animation.paused /\ shown.valid /\ shown.progress = F32One
    /\ animation.pause_at_end > 0
    /\ cycle_now > animation_duration(animation)
    /\ now - animation.start_time > total_cycle_duration(animation)

\* C10: progress of an unpaused widget has period total_cycle: at elapsed
\* k * total_cycle + x it is what it is at elapsed x, for every k.
C10_Periodic ==
    ~animation.paused =>
        LET elapsed == now - animation.start_time
            cycle == total_cycle_duration(animation)
        IN \A k \in 1..(elapsed \div cycle) :
              progress_at_elapsed(animation, elapsed)
                  = progress_at_elapsed(animation, elapsed - k * cycle)

\* part-way through the ramp of the third cycle or later
C10_Witness ==
    /\ ~animation.paused /\ shown.valid
    /\ now - animation.start_time >= 2 * total_cycle_duration(animation)
    /\ shown.progress \notin {F32Zero, F32One}
    /\ animation.pause_at_end > 0

\* the widget has just been resumed from a pause
Resumed == probe.call \in {"unpause", "toggle_pause"} /\ probe.was_paused

\* C23 as claimed: progress read x ms after an unpause is the unpaused
\* formula at elapsed = paused_progress * (frame_duration * num_frames) + x,
\* however long the pause was; and a pause taken in the end-of-cycle dwell
\* resumes at the cycle time it froze at, with only the rest of the dwell
\* left before the cycle restarts.
C23_ResumesWhereFrozen ==
    Resumed =>
        LET d == animation_duration(animation)
            e == F32MulToU64(probe.before, d)
        IN \A x \in 0..total_cycle_duration(animation) :
              /\ get_animation_progress(animation, now + x)
                     = progress_at_elapsed(animation, e + x)
              /\ probe.froze >= d =>
                     get_animation_progress(animation, now + x)
                         = progress_at_elapsed(animation, probe.froze + x)

\* C23: progress read x ms after an unpause is the unpaused formula at
\* elapsed = e + x, where e is paused_progress * (frame_duration * num_frames)
\* cut to whole milliseconds, however long the pause was; e is the cycle time
\* the widget froze at or one millisecond less for a pause in the ramp, and
\* N*D for a pause in the dwell, which therefore starts again and lasts the
\* whole pause_at_end after the resume.
C23_ResumesAtProgress ==
    Resumed =>
        LET d == animation_duration(animation)
            e == F32MulToU64(probe.before, d)
        IN /\ \A x \in 0..total_cycle_duration(animation) :
                 get_animation_progress(animation, now + x)
                     = progress_at_elapsed(animation, e + x)
           /\ probe.froze < d => e \in {probe.froze, probe.froze - 1}
           /\ probe.froze >= d =>
                 /\ e = d
                 /\ \A x \in 0..animation.pause_at_end :
                       (get_animation_progress(animation, now + x) = F32One)
                           <=> (x < animation.pause_at_end)

\* resumed after a wait from a pause taken part-way through the dwell
C23_Witness ==
    /\ Resumed /\ probe.waited
    /\ probe.froze > animation_duration(animation)
    /\ animation.num_frames > 1 /\ animation.pause_at_end > 1

----------------------------------------------------------------------------
(* One render_to_buffer_at_progress call on its own: a widget with some art, *)
(* with or without a char_fn, drawn into some area of some buffer.           *)

ArtChars == {" ", "#"}

ArtHeights == {1, 2}

\* self.art.lines(): one or two lines of MaxArtWidth chars
Arts ==
    LET Lines == [1..MaxArtWidth -> ArtChars]
    IN UNION {[1..h -> Lines] : h \in ArtHeights}

\* buffers at the origin and at the far end of the u16 coordinates
BufferAreas == {Rect(x, 0, w, h) : x \in {0, U16Max - 2}, w \in {1, 2}, h \in {1, 2}}

\* destination areas in and around the buffer over b
AreasAt(b) ==
    {r \in {Rect(x, y, w, h) : x \in {b.x, b.x + 1}, y \in {0, 1}, w \in {1, 2}, h \in {1, 2}} :
        r.x + r.width <= U16Max}

InitRender ==
    /\ \E b \in BufferAreas :
          buf \in {[called |-> FALSE,
                    widget |-> [art |-> a, has_char_fn |-> c, overflow_checks |-> o],
                    area |-> r, progress |-> F32Div(1, 2),
                    before |-> EmptyBuffer(b).content,
                    content |-> EmptyBuffer(b).content, panicked |-> "no"] :
                       a \in Arts, c \in BOOLEAN, o \in BOOLEAN, r \in AreasAt(b)}
    /\ now = 0
    /\ animation = DroppedAnimation
    /\ shown = NoShow
    /\ probe = NoProbe("new")
    /\ pc = "render"
    /\ app_state = "Exit"
    /\ list_state = 0
    /\ game = NoGame
    /\ LAST_SELECTED_INDEX = InitialLastSelected
    /\ last_frame_time = 0
    /\ dt = 0
    /\ area = Rect(0, 0, 0, 0)
    /\ fps_mode = NoMode
    /\ ev = NoEvent
    /\ tick = NoTick

RenderCall ==
    /\ ~buf.called
    /\ LET st == render_to_buffer_at_progress(buf.widget, buf.area,
                                              [content |-> buf.before], buf.progress)
       IN buf' = [buf EXCEPT !.called = TRUE, !.content = st.content,
                             !.panicked = st.panicked]
    /\ UNCHANGED <<now, animVars, pc, app_state, list_state, game, LAST_SELECTED_INDEX,
                   last_frame_time, dt, area, fps_mode, ev, tick>>

NextRender == RenderCall

SpecRender == InitRender /\ [][NextRender]_vars

----------------------------------------------------------------------------
(* Claims about render_to_buffer_at_progress, checked under SpecRender *)

\* the area lies inside the buffer
AreaInsideBuffer == Positions(buf.area) \subseteq DOMAIN buf.before

\* the art cells (x, y) that are not blank
ArtCells ==
    {Position(x, y) : x \in 0..(MaxArtWidth - 1), y \in 0..(Len(buf.widget.art) - 1)}

NonBlank(c) == buf.widget.art[c.y + 1][c.x + 1] # " "

\* C15 as claimed: a call with an area inside the buffer does not fail, and
\* changes exactly the cells at (area.x + x, area.y + y) for the non-blank
\* art cells (x, y) whose position is inside the area, to the glyph
\* char_fn(x, y, progress, original) (the original without a char_fn) and the
\* colour color_fn(x, y, progress); every other cell is as before.
C15_ClippedRender ==
    (buf.called /\ AreaInsideBuffer) =>
        /\ buf.panicked = "no"
        /\ \A p \in DOMAIN buf.before :
              LET from == {c \in ArtCells : /\ NonBlank(c)
                                            /\ p = Position(buf.area.x + c.x, buf.area.y + c.y)
                                            /\ contains(buf.area, p)}
              IN IF from = {} THEN buf.content[p] = buf.before[p]
                 ELSE \A c \in from :
                        LET ch == buf.widget.art[c.y + 1][c.x + 1]
                        IN buf.content[p] =
                             [symbol |-> IF buf.widget.has_char_fn
                                         THEN char_fn(c.x, c.y, buf.progress, ch) ELSE ch,
                              fg |-> color_fn(c.x, c.y, buf.progress)]

----------------------------------------------------------------------------
(* The layout of render_start_screen on its own: one call with some frame   *)
(* area, in a build with or without overflow checks.                        *)

FrameWidths == {0, 1, 25, 26, 27, 70, 71, 72, 80}

FrameHeights == {0, 1, 7, 8, 10, 11, 12, 17, 18, 19, 24}

\* frame areas of every size at and near the origin, and frames of 80
\* columns that end on the last rows of the u16 range
FrameAreas ==
    {Rect(x, y, w, h) : x \in {0, 3}, y \in {0, 3}, w \in FrameWidths, h \in FrameHeights}
    \cup {Rect(0, U16Max - h - d, 80, h) : h \in {8, 10, 11, 12}, d \in {0, 1}}

InitLayout ==
    /\ area \in FrameAreas
    /\ buf \in {[called |-> FALSE, overflow_checks |-> o] : o \in BOOLEAN}
    /\ pc = "layout"
    /\ now = 0
    /\ animation = DroppedAnimation
    /\ shown = NoShow
    /\ probe = NoProbe("new")
    /\ app_state = "Start"
    /\ list_state = 0
    /\ game = NoGame
    /\ LAST_SELECTED_INDEX = InitialLastSelected
    /\ last_frame_time = 0
    /\ dt = 0
    /\ fps_mode = NoMode
    /\ ev = NoEvent
    /\ tick = NoTick

\* render_start_screen(menu, area, buf) as far as its two rects: with
\* overflow checks the first sum or difference to leave the u16 range panics
LayoutCall ==
    /\ pc = "layout"
    /\ LET l == start_screen_layout(area)
       IN IF buf.overflow_checks /\ l.overflow
          THEN /\ pc' = "panicked"
               /\ buf' = [buf EXCEPT !.called = TRUE]
          ELSE /\ pc' = "laid_out"
               /\ buf' = [called |-> TRUE, overflow_checks |-> buf.overflow_checks,
                          ascii_area |-> l.ascii_area, list_area |-> l.list_area,
                          overflow |-> l.overflow]
    /\ UNCHANGED <<now, animVars, app_state, list_state, game, LAST_SELECTED_INDEX,
                   last_frame_time, dt, area, fps_mode, ev, tick>>

NextLayout == LayoutCall

SpecLayout == InitLayout /\ [][NextLayout]_vars

----------------------------------------------------------------------------
(* Claims about the layout, checked under SpecLayout *)

\* Rect::is_empty
is_empty(r) == r.width = 0 \/ r.height = 0

\* every position of a is a position of r
inside(a, r) == Positions(a) \subseteq Positions(r)

\* C24 as claimed: for every frame area, sizes of 0 and sizes below the
\* banner and list included, render_start_screen does not fail, none of its
\* u16 sums or differences leaves the u16 range (list_y - area.y is never
\* negative), ascii_area lies inside the frame area and list_area is empty
\* or lies inside the frame area.
C24_LayoutInsideFrame ==
    /\ pc # "panicked"
    /\ pc = "laid_out" =>
          /\ ~buf.overflow
          /\ inside(buf.ascii_area, area)
          /\ is_empty(buf.list_area) \/ inside(buf.list_area, area)

====
